---------------------------- MODULE Spec2Model ----------------------------
(***************************************************************************)
(* Notification dispatch subsystem of EafitTrade                           *)
(* (src/products/notifications/manager.py and __init__.py).                *)
(*                                                                         *)
(* One NotificationManager is modelled: its ordered channel list, and one  *)
(* action per public operation.  Every operation is synchronous and        *)
(* single-threaded, so an action is the whole call: it records what was    *)
(* asked (call), how the call ended (outcome), what it returned and, for   *)
(* every send_notification it ran, the channels it visited in order.       *)
(*                                                                         *)
(* Channels are instances (compared by identity, as Python's `in` does for *)
(* classes without __eq__).  The pool holds the repository's LogNotifier   *)
(* and WhatsAppNotifier and test doubles in the style of                   *)
(* validate_dependency_inversion.py (TestNotifier, FailingNotifier); three *)
(* doubles share the channel name "test".  An exception is a Python        *)
(* Exception (what `except Exception` catches).                            *)
(***************************************************************************)
EXTENDS Naturals, Sequences, FiniteSets, TLC

VARIABLES
    notifiers,    \* self.notifiers: the Manager's ordered channel list
    before,       \* self.notifiers as it was when the last operation was called
    built,        \* TRUE once NotificationManager.__init__ has returned
    call,         \* the last operation called and its arguments
    outcome,      \* how the last operation ended
    results,      \* value returned by the last send_notification
    bulkResults,  \* value returned by the last send_bulk_notification
    available,    \* value returned by the last get_available_channels
    dispatches,   \* one record per send_notification run by the last operation
    env,          \* the deployment: Django settings and the mail server
    origin,       \* how the Manager was obtained (constructor or factory)
    service,      \* the NotificationService, if one was constructed
    sent,         \* what the last use case or channel call handed over
    app           \* the marketplace's rows and what the last view call did

vars == <<notifiers, before, built, call, outcome, results, bulkResults,
          available, dispatches, env, origin, service, sent, app>>

\* What the operations of the Manager itself never touch.
deployment == <<env, origin, service, sent, app>>

---------------------------------------------------------------------------
(* Bounds of the model *)

MaxNotifiers == 3

MaxPrefs == 2

MaxUsers == 2

---------------------------------------------------------------------------
(* Channel instances *)

\* Channel instances a caller can hand to a Manager: objects that are
\* NotificationInterface instances.
Injectable == {"t_ok", "t_off", "t_boom", "flaky", "broken", "whatsapp"}

\* An object that is not a NotificationInterface.
NotAChannel == "plain_object"

\* The LogNotifier() that __init__ creates itself when given nothing.
FallbackLog == "log_fallback"

\* The instances the factories and the handlers create: InAppNotifier(request),
\* InAppNotifier() (request None), EmailNotifier(), LogNotifier(); the
\* WhatsAppNotifier is the "whatsapp" of Injectable.
FactoryMade == {"in_app", "in_app_unbound", "email", "log"}

Instances == Injectable \cup {FallbackLog} \cup FactoryMade

\* isinstance(notifier, NotificationInterface)
IsNotificationInterface(c) == c \in Instances

\* get_channel_name() raises for this instance.
NameRaises(c) == c = "broken"

\* get_channel_name(): the returned string (for an instance that returns).
ChannelName(c) ==
    CASE c \in {"t_ok", "t_off", "t_boom"} -> "test"
      [] c = "flaky"                       -> "flaky"
      [] c \in {FallbackLog, "log"}        -> "log"
      [] c = "whatsapp"                    -> "whatsapp"
      [] c \in {"in_app", "in_app_unbound"} -> "in_app"
      [] c = "email"                       -> "email"
      [] OTHER                             -> "?"

\* Recipients: Django users, identified by username.  Users are the
\* recipients of the dispatch operations; cam is a further recipient of the
\* channels and the use cases.
Users == {"ana", "bob"}

Recipients == Users \cup {"cam"}

\* user.email: ana has none.
EmailOf(u) == IF u = "ana" THEN "" ELSE "user@eafit.edu.co"

\* hasattr(user, 'seller_profile'): bob has no seller profile.
HasSellerProfile(u) == u \in {"ana", "cam"}

\* user.seller_profile.whatsapp: cam's profile has an empty number.
WhatsAppOf(u) == IF u = "ana" THEN "573001112233" ELSE ""

\* A test of the seller profile that does not look at the number.
HasWhatsApp_ProfileOnly(u) == HasSellerProfile(u)

\* hasattr(user, 'seller_profile') and user.seller_profile.whatsapp
HasWhatsApp(u) == HasSellerProfile(u) /\ WhatsAppOf(u) # ""

\* user.get_full_name(): only ana has first and last name set.
FullNameOf(u) == IF u = "ana" THEN "Ana Ruiz" ELSE ""

\* user.get_full_name() or user.username
DisplayName(u) == IF FullNameOf(u) # "" THEN FullNameOf(u) ELSE u

\* The deployments: settings.EMAIL_HOST missing, empty or set;
\* settings.DEBUG; the mail server that send_mail(fail_silently=False)
\* talks to, which answers or makes send_mail raise.  The Django messages
\* framework and the logger are taken to work.
Deployments ==
    [emailHost : {"unset", "empty", "host"}, debug : BOOLEAN,
     smtp : {"up", "down"}]

\* The deployment of a plain Manager session: production, mail configured.
Production == [emailHost |-> "host", debug |-> FALSE, smtp |-> "up"]

\* EmailNotifier.is_available():
\* hasattr(settings, 'EMAIL_HOST') and bool(settings.EMAIL_HOST)
EmailNotifier_is_available == env.emailHost = "host"

\* An EmailNotifier that looks at user.email only after send_mail.
EmailNotifier_send_notification_MailsFirst(u) ==
    IF env.smtp = "down" \/ EmailOf(u) = ""
    THEN [ret |-> "false", mailed |-> TRUE]
    ELSE [ret |-> "true", mailed |-> TRUE]

\* EmailNotifier.send_notification(user, ...): False before anything else if
\* the user has no email; otherwise the template is rendered and send_mail
\* called; an exception is caught and gives False.  mailed: send_mail was
\* called.
EmailNotifier_send_notification(u) ==
    IF EmailOf(u) = "" THEN [ret |-> "false", mailed |-> FALSE]
    ELSE IF env.smtp = "down" THEN [ret |-> "false", mailed |-> TRUE]
    ELSE [ret |-> "true", mailed |-> TRUE]

\* A WhatsAppNotifier that is never available.
WhatsAppNotifier_is_available_Never == FALSE

\* WhatsAppNotifier.is_available(): return True
WhatsAppNotifier_is_available == TRUE

\* WhatsAppNotifier.send_notification(user, ...): False if there is no
\* number; otherwise the wa.me link is built and True returned.
WhatsAppNotifier_send_notification(u) ==
    IF ~HasWhatsApp(u) THEN [ret |-> "false", link |-> ""]
    ELSE [ret |-> "true", link |-> WhatsAppOf(u)]

\* LogNotifier.is_available() and LogNotifier.send_notification(): the line
\* is logged and printed, True returned.
LogNotifier_is_available == TRUE

\* A LogNotifier whose send_notification ends in its except branch.
LogNotifier_send_notification_Fails(u) == [ret |-> "false", logged |-> ""]

LogNotifier_send_notification(u) == [ret |-> "true", logged |-> u]

\* InAppNotifier.is_available(): self.request is not None
InAppNotifier_is_available(c) == c = "in_app"

\* An InAppNotifier that delivers the comment and favorite types only.
InAppNotifier_send_notification_KnownTypesOnly(c, tag) ==
    IF c # "in_app" THEN [ret |-> "false", level |-> "none"]
    ELSE IF tag = "comment" THEN [ret |-> "true", level |-> "success"]
    ELSE IF tag = "favorite" THEN [ret |-> "true", level |-> "info"]
    ELSE [ret |-> "false", level |-> "none"]

\* InAppNotifier.send_notification(user, message, context): False without a
\* request; otherwise a Django message whose level the notification_type
\* selects (tag is "" when the context has none), and True.
InAppNotifier_send_notification(c, tag) ==
    IF c # "in_app" THEN [ret |-> "false", level |-> "none"]
    ELSE IF tag = "comment" THEN [ret |-> "true", level |-> "success"]
    ELSE [ret |-> "true", level |-> "info"]

\* is_available(): "true", "false" or "raise".
IsAvailable(c) ==
    CASE c = "t_off" -> "false"
      [] c = "flaky" -> "raise"
      [] c = "email" ->
            IF EmailNotifier_is_available THEN "true" ELSE "false"
      [] c \in {"in_app", "in_app_unbound"} ->
            IF InAppNotifier_is_available(c) THEN "true" ELSE "false"
      [] c = "whatsapp" ->
            IF WhatsAppNotifier_is_available THEN "true" ELSE "false"
      [] c \in {FallbackLog, "log"} ->
            IF LogNotifier_is_available THEN "true" ELSE "false"
      [] OTHER       -> "true"

\* send_notification(user, message, context): "true", "false" or "raise".
\* The outcome of the in-app channel is taken for a context without tag.
ChannelSend(c, u) ==
    CASE c = "t_boom"   -> "raise"
      [] c = "whatsapp" -> WhatsAppNotifier_send_notification(u).ret
      [] c = "email"    -> EmailNotifier_send_notification(u).ret
      [] c \in {"in_app", "in_app_unbound"} ->
            InAppNotifier_send_notification(c, "").ret
      [] c \in {FallbackLog, "log"} -> LogNotifier_send_notification(u).ret
      [] OTHER          -> "true"

\* Names a caller may pass; "ghost" is the name of no channel.
Names == {"test", "flaky", "whatsapp", "log", "ghost"}

\* Names drawn for preference lists.
PrefNames == {"test", "whatsapp", "ghost"}

---------------------------------------------------------------------------
(* Helpers *)

Range(s) == {s[i] : i \in 1..Len(s)}

SeqsUpTo(S, n) == UNION {[1..k -> S] : k \in 0..n}

\* Lists of pairwise distinct instances.
DistinctSeqs(S, n) == {s \in SeqsUpTo(S, n) : Cardinality(Range(s)) = Len(s)}

\* A Python dict as a function; d[k] = v.
EmptyMap == [k \in {} |-> FALSE]

\* A store that keeps the value a key already has.
Put_KeepFirst(d, k, v) ==
    [x \in (DOMAIN d) \cup {k} |-> IF x \in DOMAIN d THEN d[x] ELSE v]

Put(d, k, v) == [x \in (DOMAIN d) \cup {k} |-> IF x = k THEN v ELSE d[x]]

NoCall == [op |-> "none", user |-> "", users |-> <<>>, prefs |-> <<>>,
           channel |-> "", name |-> "", given |-> FALSE, list |-> <<>>]

Returned == [status |-> "returned", raisedIn |-> ""]

Raised(where) == [status |-> "raised", raisedIn |-> where]

---------------------------------------------------------------------------
(* NotificationManager._get_active_notifiers *)

\* The inner loop without its "not in ordered_notifiers" test.
RECURSIVE MatchLoop_NoDedup(_, _, _, _)
MatchLoop_NoDedup(ns, j, channel, ordered) ==
    IF j > Len(ns) THEN ordered
    ELSE IF ChannelName(ns[j]) = channel
         THEN MatchLoop_NoDedup(ns, j + 1, channel, Append(ordered, ns[j]))
         ELSE MatchLoop_NoDedup(ns, j + 1, channel, ordered)

\* for notifier in self.notifiers: if the name matches and the notifier is
\* not yet included, append it.
RECURSIVE MatchLoop(_, _, _, _)
MatchLoop(ns, j, channel, ordered) ==
    IF j > Len(ns) THEN ordered
    ELSE IF ChannelName(ns[j]) = channel /\ ns[j] \notin Range(ordered)
         THEN MatchLoop(ns, j + 1, channel, Append(ordered, ns[j]))
         ELSE MatchLoop(ns, j + 1, channel, ordered)

\* for channel in preferred_channels: ...
RECURSIVE PreferredLoop(_, _, _, _)
PreferredLoop(ns, prefs, k, ordered) ==
    IF k > Len(prefs) THEN ordered
    ELSE PreferredLoop(ns, prefs, k + 1, MatchLoop(ns, 1, prefs[k], ordered))

\* for notifier in self.notifiers: if not yet included, append.
RECURSIVE AppendRest(_, _, _)
AppendRest(ns, j, ordered) ==
    IF j > Len(ns) THEN ordered
    ELSE IF ns[j] \notin Range(ordered)
         THEN AppendRest(ns, j + 1, Append(ordered, ns[j]))
         ELSE AppendRest(ns, j + 1, ordered)

\* An ordering that puts the unlisted channels first.
get_active_notifiers_RestFirst(ns, prefs) ==
    IF prefs = <<>> THEN ns
    ELSE AppendRest(PreferredLoop(ns, prefs, 1, <<>>), 1,
                    SelectSeq(ns, LAMBDA c :
                        c \notin Range(PreferredLoop(ns, prefs, 1, <<>>))))

\* The list _get_active_notifiers returns (when it returns).
get_active_notifiers(ns, prefs) ==
    IF prefs = <<>> THEN ns
    ELSE AppendRest(ns, 1, PreferredLoop(ns, prefs, 1, <<>>))

\* _get_active_notifiers raises: with a preference list, the inner loop calls
\* get_channel_name() on every notifier in turn for the first listed name,
\* so it raises exactly when some owned channel's get_channel_name() does.
ActiveNotifiersRaises(ns, prefs) ==
    prefs # <<>> /\ \E j \in 1..Len(ns) : NameRaises(ns[j])

---------------------------------------------------------------------------
(* NotificationManager.send_notification *)

\* A try block that calls send_notification() without asking is_available().
Visit_NoAvailabilityCheck(c, u) ==
    [ch |-> c, name |-> ChannelName(c), avail |-> IsAvailable(c),
     send |-> IF IsAvailable(c) = "raise" THEN "none" ELSE ChannelSend(c, u)]

\* The try block for one notifier: is_available(), then send_notification()
\* only if that returned true.
Visit(c, u) ==
    [ch |-> c, name |-> ChannelName(c), avail |-> IsAvailable(c),
     send |-> IF IsAvailable(c) = "true" THEN ChannelSend(c, u) ELSE "none"]

\* Where a visit raised: "is_available", "send_notification", or "" if
\* neither call raised.
RaiseSite(v) ==
    IF v.avail = "raise" THEN "is_available"
    ELSE IF v.send = "raise" THEN "send_notification" ELSE ""

\* A try block that ends before the send_notification call.
TryCatches_AvailabilityOnly(site) == site = "is_available"

\* try: ... except Exception: the calls whose exceptions the dispatch loop
\* catches.
TryCatches(site) == site \in {"is_available", "send_notification"}

\* A loop whose else branch (channel not available) stores nothing.
Recordable_AvailableOnly(v) == v.avail # "false"

\* The visits that store a value in results[channel_name]: all of them (the
\* if branch, the else branch and the except handler each assign).
Recordable(v) == TRUE

\* What the try block stores in results[channel_name]: success when
\* send_notification returned, False when the channel is unavailable or an
\* exception was caught.
Recorded(v) == v.send = "true"

\* for notifier in active_notifiers: get_channel_name() outside the try, the
\* rest inside it.  The value is the record of the whole run: results is
\* what send_notification returns when status is "returned", and the dict it
\* had filled when it raised.
RECURSIVE DispatchLoop(_, _, _, _, _, _)
DispatchLoop(u, prefs, order, i, res, visits) ==
    IF i > Len(order)
    THEN [user |-> u, prefs |-> prefs, ordered |-> TRUE, order |-> order,
          status |-> "returned", raisedIn |-> "", results |-> res,
          visits |-> visits]
    ELSE IF NameRaises(order[i])
    THEN [user |-> u, prefs |-> prefs, ordered |-> TRUE, order |-> order,
          status |-> "raised", raisedIn |-> "get_channel_name",
          results |-> res, visits |-> visits]
    ELSE IF RaiseSite(Visit(order[i], u)) # ""
            /\ ~TryCatches(RaiseSite(Visit(order[i], u)))
    THEN [user |-> u, prefs |-> prefs, ordered |-> TRUE, order |-> order,
          status |-> "raised", raisedIn |-> RaiseSite(Visit(order[i], u)),
          results |-> res, visits |-> Append(visits, Visit(order[i], u))]
    ELSE DispatchLoop(u, prefs, order, i + 1,
                      IF Recordable(Visit(order[i], u))
                      THEN Put(res, ChannelName(order[i]),
                               Recorded(Visit(order[i], u)))
                      ELSE res,
                      Append(visits, Visit(order[i], u)))

\* One run of send_notification(user, message, context, preferred_channels).
send_notification(ns, u, prefs) ==
    IF ActiveNotifiersRaises(ns, prefs)
    THEN [user |-> u, prefs |-> prefs, ordered |-> FALSE, order |-> <<>>,
          status |-> "raised", raisedIn |-> "get_channel_name",
          results |-> EmptyMap, visits |-> <<>>]
    ELSE DispatchLoop(u, prefs, get_active_notifiers(ns, prefs), 1, EmptyMap, <<>>)

---------------------------------------------------------------------------
(* Actions *)

\* How the Manager was obtained: by is "none", "init" (the constructor),
\* "create_default" or "create_for_channel"; request and channel are the
\* factory's arguments.
NoOrigin == [by |-> "none", request |-> FALSE, channel |-> ""]

\* What a use case hands to manager.send_notification, or a direct channel
\* call observes; nothing yet.
NothingSent ==
    [input |-> [seller |-> "", actor |-> "", product |-> ""],
     manager |-> <<>>, resolved |-> "none", message |-> <<>>,
     context |-> EmptyMap, avail |-> "none", ret |-> "none", effect |-> "",
     after |-> EmptyMap, observed |-> <<>>]

\* The rows of the Comment and Favorite tables and the last call of a view:
\* nothing saved, no view called yet.
NoApp ==
    [comments |-> <<>>, favorites |-> {},
     commentsBefore |-> <<>>, favoritesBefore |-> {},
     product |-> [seller |-> "", name |-> ""], valid |-> FALSE,
     created |-> FALSE, atDispatch |-> "none", service |-> "not_called",
     response |-> "none"]

Init ==
    /\ notifiers = <<>>
    /\ before = <<>>
    /\ built = FALSE
    /\ call = NoCall
    /\ outcome = [status |-> "none", raisedIn |-> ""]
    /\ results = EmptyMap
    /\ bulkResults = EmptyMap
    /\ available = <<>>
    /\ dispatches = <<>>
    /\ env = Production
    /\ origin = NoOrigin
    /\ service = "none"
    /\ sent = NothingSent
    /\ app = NoApp

\* self.notifiers = notifiers or [LogNotifier()]: None and the empty list
\* are both falsy.
InitialNotifiers(arg) ==
    IF arg.given /\ arg.list # <<>> THEN arg.list ELSE <<FallbackLog>>

\* A _validate_notifiers that accepts anything.
validate_notifiers_Nothing(ns) == TRUE

\* _validate_notifiers: TypeError unless every notifier is a
\* NotificationInterface.
validate_notifiers(ns) == \A i \in 1..Len(ns) : IsNotificationInterface(ns[i])

\* NotificationManager.__init__(notifiers).  A constructor that raises leaves
\* no Manager behind.
Construct(arg) ==
    /\ ~built
    /\ IF validate_notifiers(InitialNotifiers(arg))
       THEN /\ built' = TRUE
            /\ notifiers' = InitialNotifiers(arg)
            /\ outcome' = Returned
       ELSE /\ outcome' = Raised("TypeError")
            /\ UNCHANGED <<built, notifiers>>
    /\ before' = <<>>
    /\ call' = [NoCall EXCEPT !.op = "init", !.given = arg.given,
                           !.list = arg.list]
    /\ origin' = [NoOrigin EXCEPT !.by = IF validate_notifiers(InitialNotifiers(arg))
                                         THEN "init" ELSE "none"]
    /\ UNCHANGED <<results, bulkResults, available, dispatches, env,
                   service, sent, app>>

\* manager.send_notification(user, message, context, preferred_channels)
SendNotification(u, prefs) ==
    /\ built
    /\ \E d \in {send_notification(notifiers, u, prefs)} :
           /\ dispatches' = <<d>>
           /\ outcome' = [status |-> d.status, raisedIn |-> d.raisedIn]
           /\ results' = IF d.status = "returned" THEN d.results ELSE EmptyMap
    /\ before' = notifiers
    /\ call' = [NoCall EXCEPT !.op = "send", !.user = u, !.prefs = prefs]
    /\ bulkResults' = EmptyMap
    /\ available' = <<>>
    /\ UNCHANGED <<notifiers, built>>
    /\ UNCHANGED deployment

\* manager.send_bulk_notification(users, message, context): one
\* send_notification per user, in order, with no preference list;
\* results[user.username] = user_results.
RECURSIVE BulkLoop(_, _, _, _, _)
RECURSIVE BulkStep(_, _, _, _, _, _)
BulkLoop(ns, users, k, res, runs) ==
    IF k > Len(users)
    THEN [status |-> "returned", raisedIn |-> "", results |-> res, runs |-> runs]
    ELSE BulkStep(ns, users, k, res, runs, send_notification(ns, users[k], <<>>))

\* user_results = self.send_notification(user, message, context), which
\* may raise; results[user.username] = user_results.
BulkStep(ns, users, k, res, runs, d) ==
    IF d.status = "raised"
    THEN [status |-> "raised", raisedIn |-> d.raisedIn, results |-> res,
          runs |-> Append(runs, d)]
    ELSE BulkLoop(ns, users, k + 1, Put(res, users[k], d.results),
                  Append(runs, d))

send_bulk_notification(ns, users) == BulkLoop(ns, users, 1, EmptyMap, <<>>)

SendBulkNotification(users) ==
    /\ built
    /\ \E b \in {send_bulk_notification(notifiers, users)} :
           /\ dispatches' = b.runs
           /\ outcome' = [status |-> b.status, raisedIn |-> b.raisedIn]
           /\ bulkResults' = IF b.status = "returned" THEN b.results ELSE EmptyMap
    /\ before' = notifiers
    /\ call' = [NoCall EXCEPT !.op = "bulk", !.users = users]
    /\ results' = EmptyMap
    /\ available' = <<>>
    /\ UNCHANGED <<notifiers, built>>
    /\ UNCHANGED deployment

\* manager.get_available_channels(): [n.get_channel_name() for n in
\* self.notifiers if n.is_available()]; nothing is caught.
RECURSIVE AvailableLoop(_, _, _)
AvailableLoop(ns, j, acc) ==
    IF j > Len(ns) THEN [status |-> "returned", raisedIn |-> "", names |-> acc]
    ELSE IF IsAvailable(ns[j]) = "raise"
    THEN [status |-> "raised", raisedIn |-> "is_available", names |-> acc]
    ELSE IF IsAvailable(ns[j]) = "false" THEN AvailableLoop(ns, j + 1, acc)
    ELSE IF NameRaises(ns[j])
    THEN [status |-> "raised", raisedIn |-> "get_channel_name", names |-> acc]
    ELSE AvailableLoop(ns, j + 1, Append(acc, ChannelName(ns[j])))

get_available_channels(ns) == AvailableLoop(ns, 1, <<>>)

GetAvailableChannels ==
    /\ built
    /\ \E r \in {get_available_channels(notifiers)} :
           /\ outcome' = [status |-> r.status, raisedIn |-> r.raisedIn]
           /\ available' = IF r.status = "returned" THEN r.names ELSE <<>>
    /\ before' = notifiers
    /\ call' = [NoCall EXCEPT !.op = "available"]
    /\ results' = EmptyMap
    /\ bulkResults' = EmptyMap
    /\ dispatches' = <<>>
    /\ UNCHANGED <<notifiers, built>>
    /\ UNCHANGED deployment

\* An add_notifier without the "not in self.notifiers" test.
add_notifier_AlwaysAppend(ns, c) == Append(ns, c)

\* The list add_notifier leaves: appended to unless already present.
add_notifier(ns, c) == IF c \notin Range(ns) THEN Append(ns, c) ELSE ns

\* manager.add_notifier(notifier).  The TypeError comes first; the log line
\* after the append calls get_channel_name().
AddNotifier(c) ==
    /\ built
    /\ c \in Range(notifiers) \/ Len(notifiers) < MaxNotifiers
    /\ IF ~IsNotificationInterface(c)
       THEN /\ outcome' = Raised("TypeError")
            /\ UNCHANGED notifiers
       ELSE /\ notifiers' = add_notifier(notifiers, c)
            /\ outcome' = IF c \notin Range(notifiers) /\ NameRaises(c)
                          THEN Raised("get_channel_name") ELSE Returned
    /\ before' = notifiers
    /\ call' = [NoCall EXCEPT !.op = "add", !.channel = c]
    /\ results' = EmptyMap
    /\ bulkResults' = EmptyMap
    /\ available' = <<>>
    /\ dispatches' = <<>>
    /\ UNCHANGED built
    /\ UNCHANGED deployment

\* Some channel of ns from place j on has a get_channel_name() that raises.
HasBrokenFrom(ns, j) == \E i \in j..Len(ns) : NameRaises(ns[i])

\* A filter that drops the first channel of that name only.
RECURSIVE RemoveLoop_FirstOnly(_, _, _, _)
RemoveLoop_FirstOnly(ns, j, name, acc) ==
    IF j > Len(ns) THEN [raised |-> FALSE, list |-> acc]
    ELSE IF NameRaises(ns[j]) THEN [raised |-> TRUE, list |-> acc]
    ELSE IF ChannelName(ns[j]) # name
         THEN RemoveLoop_FirstOnly(ns, j + 1, name, Append(acc, ns[j]))
         ELSE [raised |-> HasBrokenFrom(ns, j + 1),
               list |-> acc \o SubSeq(ns, j + 1, Len(ns))]

\* A filter that builds its list back to front.
RECURSIVE RemoveLoop_Reversing(_, _, _, _)
RemoveLoop_Reversing(ns, j, name, acc) ==
    IF j > Len(ns) THEN [raised |-> FALSE, list |-> acc]
    ELSE IF NameRaises(ns[j]) THEN [raised |-> TRUE, list |-> acc]
    ELSE IF ChannelName(ns[j]) # name
         THEN RemoveLoop_Reversing(ns, j + 1, name, <<ns[j]>> \o acc)
         ELSE RemoveLoop_Reversing(ns, j + 1, name, acc)

\* [n for n in self.notifiers if n.get_channel_name() != channel_name]
RECURSIVE RemoveLoop(_, _, _, _)
RemoveLoop(ns, j, name, acc) ==
    IF j > Len(ns) THEN [raised |-> FALSE, list |-> acc]
    ELSE IF NameRaises(ns[j]) THEN [raised |-> TRUE, list |-> acc]
    ELSE IF ChannelName(ns[j]) # name
         THEN RemoveLoop(ns, j + 1, name, Append(acc, ns[j]))
         ELSE RemoveLoop(ns, j + 1, name, acc)

remove_notifier(ns, name) == RemoveLoop(ns, 1, name, <<>>)

\* manager.remove_notifier(channel_name): the list is assigned only when
\* the comprehension has finished.
RemoveNotifier(name) ==
    /\ built
    /\ \E r \in {remove_notifier(notifiers, name)} :
           IF r.raised
           THEN /\ outcome' = Raised("get_channel_name")
                /\ UNCHANGED notifiers
           ELSE /\ outcome' = Returned
                /\ notifiers' = r.list
    /\ before' = notifiers
    /\ call' = [NoCall EXCEPT !.op = "remove", !.name = name]
    /\ results' = EmptyMap
    /\ bulkResults' = EmptyMap
    /\ available' = <<>>
    /\ dispatches' = <<>>
    /\ UNCHANGED built
    /\ UNCHANGED deployment

\* What a caller may pass to NotificationManager(...): nothing (None), or a
\* list of pairwise distinct objects.
CtorArgs ==
    {[given |-> FALSE, list |-> <<>>]}
    \cup {[given |-> TRUE, list |-> l] :
            l \in DistinctSeqs(Injectable \cup {NotAChannel}, MaxNotifiers)}

Next ==
    \/ \E arg \in CtorArgs : Construct(arg)
    \/ \E u \in Users, prefs \in SeqsUpTo(PrefNames, MaxPrefs) :
          SendNotification(u, prefs)
    \/ \E users \in SeqsUpTo(Users, MaxUsers) : SendBulkNotification(users)
    \/ GetAvailableChannels
    \/ \E c \in Injectable \cup {NotAChannel} : AddNotifier(c)
    \/ \E name \in Names : RemoveNotifier(name)

Spec == Init /\ [][Next]_vars

---------------------------------------------------------------------------
(* The factories: NotificationManager.create_default, create_for_channel *)

\* A create_default that appends the email channel whatever settings.DEBUG.
create_default_IgnoresDebug(request) ==
    (IF request THEN <<"in_app">> ELSE <<>>)
    \o (IF EmailNotifier_is_available THEN <<"email">> ELSE <<>>)
    \o <<"whatsapp">> \o <<"log">>

\* The list create_default(request) hands to the constructor: InAppNotifier
\* if request; EmailNotifier if is_available() and not settings.DEBUG;
\* WhatsAppNotifier; LogNotifier.
create_default(request) ==
    (IF request THEN <<"in_app">> ELSE <<>>)
    \o (IF EmailNotifier_is_available /\ ~env.debug THEN <<"email">> ELSE <<>>)
    \o <<"whatsapp">> \o <<"log">>

\* NotificationManager.create_default(request): return cls(notifiers)
CreateDefault(request) ==
    /\ ~built
    /\ built' = TRUE
    /\ notifiers' = InitialNotifiers([given |-> TRUE,
                                      list |-> create_default(request)])
    /\ outcome' = Returned
    /\ origin' = [NoOrigin EXCEPT !.by = "create_default",
                                  !.request = request]
    /\ before' = <<>>
    /\ call' = [NoCall EXCEPT !.op = "create_default", !.given = request]
    /\ UNCHANGED <<results, bulkResults, available, dispatches, env,
                   service, sent, app>>

\* The keys of channel_map.
SupportedChannels == {"email", "whatsapp", "log", "in_app"}

\* Names a caller may pass to create_for_channel.
FactoryNames == SupportedChannels \cup {"sms", "test"}

\* notifier_class(**kwargs): the instance made, kwargs being empty or
\* request=<a request>.
ChannelInstance(channel, request) ==
    CASE channel = "email"    -> "email"
      [] channel = "whatsapp" -> "whatsapp"
      [] channel = "log"      -> "log"
      [] channel = "in_app" -> IF request THEN "in_app" ELSE "in_app_unbound"

\* notifier_class(**kwargs) raises TypeError: only InAppNotifier.__init__
\* takes a request; EmailNotifier takes from_email, the others nothing.
KwargsRejected(channel, request) == request /\ channel # "in_app"

\* A create_for_channel that falls back on the log channel for a name that
\* is not in channel_map.
create_for_channel_FallsBackOnLog(channel, request) ==
    IF channel \notin SupportedChannels
    THEN [raised |-> "", list |-> <<"log">>]
    ELSE IF KwargsRejected(channel, request)
    THEN [raised |-> "TypeError", list |-> <<>>]
    ELSE [raised |-> "", list |-> <<ChannelInstance(channel, request)>>]

\* create_for_channel(channel, **kwargs): ValueError for a name that is not
\* in channel_map, before anything is instantiated; else cls([notifier]).
create_for_channel(channel, request) ==
    IF channel \notin SupportedChannels
    THEN [raised |-> "ValueError", list |-> <<>>]
    ELSE IF KwargsRejected(channel, request)
    THEN [raised |-> "TypeError", list |-> <<>>]
    ELSE [raised |-> "", list |-> <<ChannelInstance(channel, request)>>]

\* NotificationManager.create_for_channel(channel, **kwargs)
CreateForChannel(channel, request) ==
    /\ ~built
    /\ \E r \in {create_for_channel(channel, request)} :
           IF r.raised # ""
           THEN /\ outcome' = Raised(r.raised)
                /\ UNCHANGED <<built, notifiers, origin>>
           ELSE /\ outcome' = Returned
                /\ built' = TRUE
                /\ notifiers' = InitialNotifiers([given |-> TRUE,
                                                 list |-> r.list])
                /\ origin' = [NoOrigin EXCEPT !.by = "create_for_channel",
                                              !.request = request,
                                              !.channel = channel]
    /\ before' = <<>>
    /\ call' = [NoCall EXCEPT !.op = "create_for_channel", !.name = channel,
                              !.given = request]
    /\ UNCHANGED <<results, bulkResults, available, dispatches, env,
                   service, sent, app>>

\* Preference lists of the factory sessions: those of the use cases and one
\* naming a channel no factory makes.
FactoryPrefs ==
    {<<>>, <<"in_app", "whatsapp">>, <<"email", "in_app">>, <<"log", "ghost">>}

\* A session starts in any deployment.
FactoryInit ==
    /\ notifiers = <<>>
    /\ before = <<>>
    /\ built = FALSE
    /\ call = NoCall
    /\ outcome = [status |-> "none", raisedIn |-> ""]
    /\ results = EmptyMap
    /\ bulkResults = EmptyMap
    /\ available = <<>>
    /\ dispatches = <<>>
    /\ env \in Deployments
    /\ origin = NoOrigin
    /\ service = "none"
    /\ sent = NothingSent
    /\ app = NoApp

FactoryNext ==
    \/ \E request \in BOOLEAN : CreateDefault(request)
    \/ \E channel \in FactoryNames, request \in BOOLEAN :
          CreateForChannel(channel, request)
    \/ \E u \in Recipients, prefs \in FactoryPrefs : SendNotification(u, prefs)
    \/ \E users \in SeqsUpTo(Users, MaxUsers) : SendBulkNotification(users)
    \/ GetAvailableChannels

FactorySpec == FactoryInit /\ [][FactoryNext]_vars

---------------------------------------------------------------------------
(* The channels called directly *)

\* The channel classes of the package, in_app with and without a request.
ChannelInstances == {"email", "whatsapp", "log", "in_app", "in_app_unbound"}

\* context.get('notification_type'), "" when the context has none.
Tag(ctx) ==
    IF "notification_type" \in DOMAIN ctx THEN ctx["notification_type"] ELSE ""

\* Contexts of the direct calls: empty, and one per notification type.
TaggedContexts ==
    {EmptyMap} \cup {[k \in {"notification_type"} |-> t] :
                        t \in {"comment", "favorite", "interest"}}

\* channel.send_notification(user, message, context): the returned value
\* and what the channel did outside itself (send_mail called, the level of
\* the Django message, the number the link was built for, the log line).
channel_send_notification(c, u, ctx) ==
    CASE c = "email" ->
            [ret |-> EmailNotifier_send_notification(u).ret,
             effect |-> IF EmailNotifier_send_notification(u).mailed
                        THEN "send_mail" ELSE ""]
      [] c = "whatsapp" ->
            [ret |-> WhatsAppNotifier_send_notification(u).ret,
             effect |-> WhatsAppNotifier_send_notification(u).link]
      [] c = "log" ->
            [ret |-> LogNotifier_send_notification(u).ret,
             effect |-> LogNotifier_send_notification(u).logged]
      [] c \in {"in_app", "in_app_unbound"} ->
            [ret |-> InAppNotifier_send_notification(c, Tag(ctx)).ret,
             effect |-> InAppNotifier_send_notification(c, Tag(ctx)).level]

\* The message of the calls whose context is followed.
Message == "m"

\* What EmailNotifier.send_notification leaves in the mapping it was given:
\* nothing new if the user has no email (it returns first); otherwise
\* context = context or {} keeps a non-empty mapping and replaces an empty
\* one by a new dict, and context.update(...) writes user, message and
\* site_name into it.
EmailNotifier_context(u, ctx) ==
    IF EmailOf(u) = "" \/ ctx = EmptyMap THEN ctx
    ELSE Put(Put(Put(ctx, "user", u), "message", Message),
             "site_name", "EafitTrade")

\* What WhatsAppNotifier.send_notification leaves in the mapping it was
\* given: after context = context or {}, "if context:" writes whatsapp_url
\* only into a mapping that is not empty.
WhatsAppNotifier_context(u, ctx) ==
    IF WhatsAppNotifier_send_notification(u).ret = "true" /\ ctx # EmptyMap
    THEN Put(ctx, "whatsapp_url", WhatsAppNotifier_send_notification(u).link)
    ELSE ctx

\* The mapping given to channel.send_notification(user, message, context),
\* as it is when the call has returned; LogNotifier, InAppNotifier and the
\* test channels only read it.
channel_context(c, u, ctx) ==
    CASE c = "email"    -> EmailNotifier_context(u, ctx)
      [] c = "whatsapp" -> WhatsAppNotifier_context(u, ctx)
      [] OTHER          -> ctx

\* channel.is_available() and channel.send_notification(user, message,
\* context), called on the channel itself.
CallChannel(c, u, ctx) ==
    /\ call' = [NoCall EXCEPT !.op = "channel", !.channel = c, !.user = u]
    /\ sent' = [NothingSent EXCEPT
                   !.context = ctx,
                   !.avail = IsAvailable(c),
                   !.ret = channel_send_notification(c, u, ctx).ret,
                   !.effect = channel_send_notification(c, u, ctx).effect,
                   !.after = channel_context(c, u, ctx)]
    /\ outcome' = Returned
    /\ UNCHANGED <<notifiers, before, built, results, bulkResults, available,
                   dispatches, env, origin, service, app>>

ChannelNext ==
    \E c \in ChannelInstances, u \in Recipients, ctx \in TaggedContexts :
        CallChannel(c, u, ctx)

ChannelSpec == FactoryInit /\ [][ChannelNext]_vars

---------------------------------------------------------------------------
(* The context mapping through a dispatch *)

\* Contexts a caller supplies to the Manager: none (or an empty dict), and
\* a mapping with one entry.
SuppliedContexts == {EmptyMap, [k \in {"product_name"} |-> "libro"]}

\* context = context or {} in send_notification, then the same object is
\* handed to every notifier whose send_notification is invoked: seen
\* collects, per invocation, the mapping as the channel found it, and ctx is
\* the mapping as the channels so far have left it.
RECURSIVE ContextLoop(_, _, _, _, _)
ContextLoop(visits, i, u, ctx, seen) ==
    IF i > Len(visits) THEN [context |-> ctx, seen |-> seen]
    ELSE IF visits[i].send = "none"
    THEN ContextLoop(visits, i + 1, u, ctx, seen)
    ELSE ContextLoop(visits, i + 1, u, channel_context(visits[i].ch, u, ctx),
                     Append(seen, [user |-> u, ch |-> visits[i].ch,
                                   context |-> ctx]))

\* for user in users: self.send_notification(user, message, context): the
\* context of one run is the mapping the run before it left.
RECURSIVE BulkContextLoop(_, _, _, _)
BulkContextLoop(runs, k, ctx, seen) ==
    IF k > Len(runs) THEN [context |-> ctx, seen |-> seen]
    ELSE BulkContextLoop(runs, k + 1,
            ContextLoop(runs[k].visits, 1, runs[k].user, ctx, <<>>).context,
            seen \o ContextLoop(runs[k].visits, 1, runs[k].user, ctx, <<>>).seen)

\* manager.send_notification(user, message, context).
DispatchWithContext(u, ctx) ==
    /\ built
    /\ \E d \in {send_notification(notifiers, u, <<>>)} :
           /\ dispatches' = <<d>>
           /\ outcome' = [status |-> d.status, raisedIn |-> d.raisedIn]
           /\ results' = IF d.status = "returned" THEN d.results ELSE EmptyMap
           /\ sent' = [NothingSent EXCEPT
                          !.manager = notifiers,
                          !.context = ctx,
                          !.after = ContextLoop(d.visits, 1, u, ctx, <<>>).context,
                          !.observed = ContextLoop(d.visits, 1, u, ctx, <<>>).seen]
    /\ before' = notifiers
    /\ call' = [NoCall EXCEPT !.op = "send_context", !.user = u]
    /\ bulkResults' = EmptyMap
    /\ available' = <<>>
    /\ UNCHANGED <<notifiers, built, env, origin, service, app>>

\* manager.send_bulk_notification(users, message, context).
BulkWithContext(users, ctx) ==
    /\ built
    /\ \E b \in {send_bulk_notification(notifiers, users)} :
           /\ dispatches' = b.runs
           /\ outcome' = [status |-> b.status, raisedIn |-> b.raisedIn]
           /\ bulkResults' = IF b.status = "returned" THEN b.results ELSE EmptyMap
           /\ sent' = [NothingSent EXCEPT
                          !.manager = notifiers,
                          !.context = ctx,
                          !.after = BulkContextLoop(b.runs, 1, ctx, <<>>).context,
                          !.observed = BulkContextLoop(b.runs, 1, ctx, <<>>).seen]
    /\ before' = notifiers
    /\ call' = [NoCall EXCEPT !.op = "bulk_context", !.users = users]
    /\ results' = EmptyMap
    /\ available' = <<>>
    /\ UNCHANGED <<notifiers, built, env, origin, service, app>>

ContextNext ==
    \/ \E request \in BOOLEAN : CreateDefault(request)
    \/ \E u \in Recipients, ctx \in SuppliedContexts : DispatchWithContext(u, ctx)
    \/ \E users \in SeqsUpTo(Recipients, MaxUsers), ctx \in SuppliedContexts :
          BulkWithContext(users, ctx)

ContextSpec == FactoryInit /\ [][ContextNext]_vars

---------------------------------------------------------------------------
(* NotificationService *)

\* Products, comments and favorites the handlers pass to the service.
Products == [seller : Recipients, name : {"Bicicleta"}]

Comments == [product : Products, user : Users, text : {"Muy buena"},
             rating : {5}]

Favorites == [product : Products, user : Users]

\* Managers a caller builds to inject: the one of test_service_integration,
\* two channels of one name, the package's channels in an order of the
\* caller's, the one of register_whatsapp_click, a channel whose
\* get_channel_name() raises.
InjectedLists ==
    {<<"t_ok">>, <<"t_boom", "t_ok">>, <<"log", "whatsapp", "in_app">>,
     <<"whatsapp", "log">>,
     <<"in_app_unbound", "t_off", "whatsapp">>, <<"email", "log">>,
     <<"log", "broken">>}

\* NotificationService(manager): self.manager = manager; the Manager
\* injected is the one constructed before.
ConstructService(inject) ==
    /\ service = "none"
    /\ inject => built
    /\ service' = IF inject THEN "injected" ELSE "default"
    /\ call' = [NoCall EXCEPT !.op = "service", !.given = inject]
    /\ outcome' = Returned
    /\ UNCHANGED <<notifiers, before, built, results, bulkResults, available,
                   dispatches, env, origin, sent, app>>

\* A _get_manager that builds the default Manager whenever it has a request.
get_manager_RequestFirst(request) ==
    IF service = "injected" /\ ~request THEN notifiers
    ELSE InitialNotifiers([given |-> TRUE, list |-> create_default(request)])

\* _get_manager(request): self.manager if there is one, else
\* NotificationManager.create_default(request); the value is the channel
\* list of the Manager.
get_manager(request) ==
    IF service = "injected" THEN notifiers
    ELSE InitialNotifiers([given |-> TRUE, list |-> create_default(request)])

\* A notify_new_comment that addresses the commenter.
notify_new_comment_ToCommenter(comment) ==
    [user |-> comment.user,
     message |-> <<"Tienes un nuevo comentario de ",
                   DisplayName(comment.user), "!">>,
     context |-> [notification_type |-> "comment",
                  product_name |-> comment.product.name,
                  comment_text |-> comment.text,
                  comment_rating |-> comment.rating,
                  commenter |-> DisplayName(comment.user),
                  subject |-> <<"Nuevo comentario en ", comment.product.name>>],
     prefs |-> <<>>]

\* notify_new_comment: seller, message and context as the method builds
\* them; send_notification is called without preferred_channels.
notify_new_comment(comment) ==
    [user |-> comment.product.seller,
     message |-> <<"Tienes un nuevo comentario de ",
                   DisplayName(comment.user), "!">>,
     context |-> [notification_type |-> "comment",
                  product_name |-> comment.product.name,
                  comment_text |-> comment.text,
                  comment_rating |-> comment.rating,
                  commenter |-> DisplayName(comment.user),
                  subject |-> <<"Nuevo comentario en ", comment.product.name>>],
     prefs |-> <<>>]

\* notify_new_favorite
notify_new_favorite(favorite) ==
    [user |-> favorite.product.seller,
     message |-> <<DisplayName(favorite.user),
                   " marco tu producto como favorito!">>,
     context |-> [notification_type |-> "favorite",
                  product_name |-> favorite.product.name,
                  user |-> DisplayName(favorite.user),
                  subject |-> <<"Nuevo favorito en ", favorite.product.name>>],
     prefs |-> <<>>]

\* A preference list that names whatsapp before in_app.
InterestPreference_WhatsAppFirst == <<"whatsapp", "in_app">>

\* preferred_channels=['in_app', 'whatsapp']
InterestPreference == <<"in_app", "whatsapp">>

\* notify_product_interest
notify_product_interest(product, interested_user) ==
    [user |-> product.seller,
     message |-> <<DisplayName(interested_user),
                   " esta interesado en tu producto!">>,
     context |-> [notification_type |-> "interest",
                  product_name |-> product.name,
                  interested_user |-> DisplayName(interested_user),
                  subject |-> <<"Interes en ", product.name>>],
     prefs |-> InterestPreference]

\* notify_low_stock: preferred_channels=['email', 'in_app']
notify_low_stock(product) ==
    [user |-> product.seller,
     message |-> <<"Tu producto '", product.name, "' tiene stock bajo.">>,
     context |-> [notification_type |-> "stock",
                  product_name |-> product.name,
                  subject |-> <<"Stock bajo: ", product.name>>],
     prefs |-> <<"email", "in_app">>]

\* manager = self._get_manager(request);
\* return manager.send_notification(seller, message, context[, preferred]):
\* h is what the use case built, input what it was called with.
UseCase(op, input, h, request) ==
    /\ service # "none"
    /\ \E m \in {get_manager(request)} :
         \E d \in {send_notification(m, h.user, h.prefs)} :
           /\ dispatches' = <<d>>
           /\ outcome' = [status |-> d.status, raisedIn |-> d.raisedIn]
           /\ results' = IF d.status = "returned" THEN d.results ELSE EmptyMap
           /\ sent' = [NothingSent EXCEPT
                          !.input = input,
                          !.manager = m,
                          !.resolved = IF service = "injected" THEN "injected"
                                       ELSE "create_default",
                          !.message = h.message,
                          !.context = h.context]
    /\ call' = [NoCall EXCEPT !.op = op, !.user = h.user, !.prefs = h.prefs,
                              !.given = request]
    /\ before' = notifiers
    /\ bulkResults' = EmptyMap
    /\ available' = <<>>
    /\ UNCHANGED <<notifiers, built, env, origin, service, app>>

NotifyNewComment(comment, request) ==
    UseCase("notify_new_comment",
            [seller |-> comment.product.seller, actor |-> comment.user,
             product |-> comment.product.name],
            notify_new_comment(comment), request)

NotifyNewFavorite(favorite, request) ==
    UseCase("notify_new_favorite",
            [seller |-> favorite.product.seller, actor |-> favorite.user,
             product |-> favorite.product.name],
            notify_new_favorite(favorite), request)

NotifyProductInterest(product, interested_user, request) ==
    UseCase("notify_product_interest",
            [seller |-> product.seller, actor |-> interested_user,
             product |-> product.name],
            notify_product_interest(product, interested_user), request)

\* notify_low_stock(product) takes no request: self._get_manager()
NotifyLowStock(product) ==
    UseCase("notify_low_stock",
            [seller |-> product.seller, actor |-> "", product |-> product.name],
            notify_low_stock(product), FALSE)

ServiceNext ==
    \/ \E l \in InjectedLists : Construct([given |-> TRUE, list |-> l])
    \/ \E request \in BOOLEAN : CreateDefault(request)
    \/ \E inject \in BOOLEAN : ConstructService(inject)
    \/ \E comment \in Comments, request \in BOOLEAN :
          NotifyNewComment(comment, request)
    \/ \E favorite \in Favorites, request \in BOOLEAN :
          NotifyNewFavorite(favorite, request)
    \/ \E product \in Products, u \in Users, request \in BOOLEAN :
          NotifyProductInterest(product, u, request)
    \/ \E product \in Products : NotifyLowStock(product)

ServiceSpec == FactoryInit /\ [][ServiceNext]_vars

---------------------------------------------------------------------------
(* The views add_comment and toggle_favorite *)

MaxComments == 1

\* Products that have a seller with a profile; ana also acts as a buyer.
ViewProducts == {p \in Products : HasSellerProfile(p.seller)}

\* What the try block of a view may meet in the notification system: the
\* result the service gives, a result in which no channel delivered, or an
\* exception ("Error en sistema de notificaciones").
ServiceFaults == {"none", "all_false", "raise"}

\* The rows the views create.
CommentRow(u, p) == [product |-> p, user |-> u, text |-> "Muy buena", rating |-> 5]

FavoriteRow(u, p) == [product |-> p, user |-> u]

\* notification_service = NotificationService();
\* notification_service.notify_new_...(row, request): the run of the
\* default Manager built with the request.
ViewDispatch(h) == send_notification(get_manager(TRUE), h.user, h.prefs)

\* How the call of the service ended, as the view sees it.
ServiceOutcome(d, fault) ==
    IF fault = "raise" \/ d.status = "raised" THEN "raised"
    ELSE IF fault = "all_false" \/ \A k \in DOMAIN d.results : ~d.results[k]
         THEN "all_false" ELSE "delivered"

\* An add_comment whose call of the service has no try around it.
add_comment_NoTry(comments, u, p, valid, fault) ==
    IF ~valid
    THEN [comments |-> comments, atDispatch |-> "none",
          service |-> "not_called", runs |-> <<>>,
          response |-> "redirect_error_message"]
    ELSE IF u = p.seller
    THEN [comments |-> Append(comments, CommentRow(u, p)),
          atDispatch |-> "none", service |-> "not_called", runs |-> <<>>,
          response |-> "redirect_success_message"]
    ELSE [comments |-> Append(comments, CommentRow(u, p)),
          atDispatch |-> "saved",
          service |-> ServiceOutcome(
                         ViewDispatch(notify_new_comment(CommentRow(u, p))),
                         fault),
          runs |-> <<ViewDispatch(notify_new_comment(CommentRow(u, p)))>>,
          response |-> IF ServiceOutcome(
                             ViewDispatch(notify_new_comment(CommentRow(u, p))),
                             fault) = "raised"
                       THEN "exception" ELSE "redirect_success_message"]

\* add_comment(request, product_id) with request.user = u: an invalid form
\* saves nothing and redirects with an error message; a valid one saves the
\* comment, then, inside try/except Exception, notifies unless the
\* commenter is the seller, then redirects with the success message.
\* atDispatch: whether the comment was saved when the service was called.
add_comment(comments, u, p, valid, fault) ==
    IF ~valid
    THEN [comments |-> comments, atDispatch |-> "none",
          service |-> "not_called", runs |-> <<>>,
          response |-> "redirect_error_message"]
    ELSE IF u = p.seller
    THEN [comments |-> Append(comments, CommentRow(u, p)),
          atDispatch |-> "none", service |-> "not_called", runs |-> <<>>,
          response |-> "redirect_success_message"]
    ELSE [comments |-> Append(comments, CommentRow(u, p)),
          atDispatch |-> "saved",
          service |-> ServiceOutcome(
                         ViewDispatch(notify_new_comment(CommentRow(u, p))),
                         fault),
          runs |-> <<ViewDispatch(notify_new_comment(CommentRow(u, p)))>>,
          response |-> "redirect_success_message"]

\* A toggle_favorite that notifies whoever the seller is.
toggle_favorite_NotifiesOwner(favorites, u, p, fault) ==
    IF FavoriteRow(u, p) \in favorites
    THEN [favorites |-> favorites \ {FavoriteRow(u, p)}, created |-> FALSE,
          atDispatch |-> "none", service |-> "not_called", runs |-> <<>>,
          response |-> "removed"]
    ELSE [favorites |-> favorites \cup {FavoriteRow(u, p)}, created |-> TRUE,
          atDispatch |-> "saved",
          service |-> ServiceOutcome(
                         ViewDispatch(notify_new_favorite(FavoriteRow(u, p))),
                         fault),
          runs |-> <<ViewDispatch(notify_new_favorite(FavoriteRow(u, p)))>>,
          response |-> "added"]

\* toggle_favorite(request, product_id) with request.user = u:
\* get_or_create; a favorite that existed is deleted and 'removed'
\* returned; a created one stays, the seller is notified inside try/except
\* Exception unless the user is the seller, and 'added' is returned.
toggle_favorite(favorites, u, p, fault) ==
    IF FavoriteRow(u, p) \in favorites
    THEN [favorites |-> favorites \ {FavoriteRow(u, p)}, created |-> FALSE,
          atDispatch |-> "none", service |-> "not_called", runs |-> <<>>,
          response |-> "removed"]
    ELSE IF u = p.seller
    THEN [favorites |-> favorites \cup {FavoriteRow(u, p)}, created |-> TRUE,
          atDispatch |-> "none", service |-> "not_called", runs |-> <<>>,
          response |-> "added"]
    ELSE [favorites |-> favorites \cup {FavoriteRow(u, p)}, created |-> TRUE,
          atDispatch |-> "saved",
          service |-> ServiceOutcome(
                         ViewDispatch(notify_new_favorite(FavoriteRow(u, p))),
                         fault),
          runs |-> <<ViewDispatch(notify_new_favorite(FavoriteRow(u, p)))>>,
          response |-> "added"]

\* The result the view reads in results.items().
ViewResults(r, fault) ==
    IF r.service = "not_called" \/ r.service = "raised" THEN EmptyMap
    ELSE IF fault = "all_false"
         THEN [k \in DOMAIN r.runs[1].results |-> FALSE]
         ELSE r.runs[1].results

\* POST add_comment by a logged-in user on an existing product.
AddComment(u, p, valid, fault) ==
    /\ valid => Len(app.comments) < MaxComments
    /\ \E r \in {add_comment(app.comments, u, p, valid, fault)} :
           /\ app' = [app EXCEPT
                         !.comments = r.comments,
                         !.commentsBefore = app.comments,
                         !.favoritesBefore = app.favorites,
                         !.product = p, !.valid = valid, !.created = FALSE,
                         !.atDispatch = r.atDispatch,
                         !.service = r.service, !.response = r.response]
           /\ dispatches' = r.runs
           /\ results' = ViewResults(r, fault)
           /\ outcome' = IF r.response = "exception"
                         THEN Raised("add_comment") ELSE Returned
    /\ call' = [NoCall EXCEPT !.op = "add_comment", !.user = u, !.given = TRUE]
    /\ UNCHANGED <<notifiers, before, built, bulkResults, available, env,
                   origin, service, sent>>

\* POST toggle_favorite by a logged-in user on an existing product.
ToggleFavorite(u, p, fault) ==
    /\ \E r \in {toggle_favorite(app.favorites, u, p, fault)} :
           /\ app' = [app EXCEPT
                         !.favorites = r.favorites,
                         !.commentsBefore = app.comments,
                         !.favoritesBefore = app.favorites,
                         !.product = p, !.valid = FALSE,
                         !.created = r.created,
                         !.atDispatch = r.atDispatch,
                         !.service = r.service, !.response = r.response]
           /\ dispatches' = r.runs
           /\ results' = ViewResults(r, fault)
           /\ outcome' = Returned
    /\ call' = [NoCall EXCEPT !.op = "toggle_favorite", !.user = u,
                              !.given = TRUE]
    /\ UNCHANGED <<notifiers, before, built, bulkResults, available, env,
                   origin, service, sent>>

ViewNext ==
    \/ \E u \in Users, p \in ViewProducts, valid \in BOOLEAN,
          fault \in ServiceFaults : AddComment(u, p, valid, fault)
    \/ \E u \in Users, p \in ViewProducts, fault \in ServiceFaults :
          ToggleFavorite(u, p, fault)

ViewSpec == FactoryInit /\ [][ViewNext]_vars

---------------------------------------------------------------------------
(* Vocabulary of the claims *)

\* The send_notification runs of the last operation.
Runs == 1..Len(dispatches)

\* The visits of run d that follow visit i and are to a channel of the same
\* name.
LaterSameName(d, i) ==
    {j \in (i + 1)..Len(d.visits) : d.visits[j].name = d.visits[i].name}

\* The send_notification of a visit was delivered (returned True).
Delivered(v) == v.send = "true"

\* The names of the channels of a list (of channels whose name can be read).
NamesOf(ns) == {ChannelName(ns[i]) : i \in 1..Len(ns)}

HasBroken(ns) == \E i \in 1..Len(ns) : NameRaises(ns[i])

---------------------------------------------------------------------------
(* C1 *)

\* C1 as stated, for a dispatch that returns: if a channel's
\* send_notification raised, the returned result maps that channel's name to
\* false.
C1_RaisedMapsToFalse ==
    \A k \in Runs : \A i \in 1..Len(dispatches[k].visits) :
        (dispatches[k].status = "returned"
            /\ dispatches[k].visits[i].send = "raise")
        => dispatches[k].results[dispatches[k].visits[i].name] = FALSE

\* C1, amended: if a channel's send_notification raises, the exception is
\* caught in the dispatch loop and never leaves send_notification; false is
\* recorded under that channel's name, and stays there unless a later channel
\* of the same name is delivered; the loop goes on with the channel that
\* follows in the effective order (it stops early only where a
\* get_channel_name call raises), and in a dispatch that returns every
\* following channel has been visited and has its name in the result.
C1_SendExceptionContained ==
    \A k \in Runs : \A i \in 1..Len(dispatches[k].visits) :
        dispatches[k].visits[i].send = "raise"
        => /\ dispatches[k].raisedIn \notin {"send_notification", "is_available"}
           /\ dispatches[k].visits[i].name \in DOMAIN dispatches[k].results
           /\ \/ dispatches[k].results[dispatches[k].visits[i].name] = FALSE
              \/ \E j \in LaterSameName(dispatches[k], i) :
                    Delivered(dispatches[k].visits[j])
           /\ \/ i = Len(dispatches[k].order)
              \/ i < Len(dispatches[k].visits)
              \/ NameRaises(dispatches[k].order[i + 1])
           /\ dispatches[k].status = "returned"
              => /\ Len(dispatches[k].visits) = Len(dispatches[k].order)
                 /\ \A j \in (i + 1)..Len(dispatches[k].order) :
                       /\ dispatches[k].visits[j].ch = dispatches[k].order[j]
                       /\ dispatches[k].visits[j].name
                             \in DOMAIN dispatches[k].results

\* A dispatch returned although the send_notification of its first channel
\* raised: that name is false in the result and the channel after it was
\* delivered.
C1_Witness ==
    /\ call.op = "send" /\ outcome.status = "returned"
    /\ Len(dispatches[1].visits) >= 2
    /\ dispatches[1].visits[1].send = "raise"
    /\ results[dispatches[1].visits[1].name] = FALSE
    /\ Delivered(dispatches[1].visits[2])
    /\ results[dispatches[1].visits[2].name] = TRUE

---------------------------------------------------------------------------
(* C2 *)

\* C2 as stated: a channel whose is_available() returned false has no
\* send_notification invoked in that dispatch, and the result the dispatch
\* returns maps its name to false.
C2_UnavailableMapsToFalse ==
    \A k \in Runs : \A i \in 1..Len(dispatches[k].visits) :
        dispatches[k].visits[i].avail = "false"
        => /\ dispatches[k].visits[i].send = "none"
           /\ dispatches[k].status = "returned"
              => dispatches[k].results[dispatches[k].visits[i].name] = FALSE

\* C2, amended: a channel whose is_available() returned false has no
\* send_notification invoked in that dispatch (no visit of the dispatch
\* invokes it), and false is recorded under its name; the name is false in the
\* result unless a later channel of the same name in the effective order is
\* delivered.
C2_UnavailableNeverInvoked ==
    \A k \in Runs : \A i \in 1..Len(dispatches[k].visits) :
        dispatches[k].visits[i].avail = "false"
        => /\ \A j \in 1..Len(dispatches[k].visits) :
                 dispatches[k].visits[j].ch = dispatches[k].visits[i].ch
                 => dispatches[k].visits[j].send = "none"
           /\ dispatches[k].visits[i].name \in DOMAIN dispatches[k].results
           /\ \/ dispatches[k].results[dispatches[k].visits[i].name] = FALSE
              \/ \E j \in LaterSameName(dispatches[k], i) :
                    Delivered(dispatches[k].visits[j])

\* A returned dispatch visited an unavailable channel and then delivered
\* through another one; the unavailable channel's name is false in the result.
C2_Witness ==
    /\ call.op = "send" /\ outcome.status = "returned"
    /\ \E i \in 1..Len(dispatches[1].visits) :
         /\ dispatches[1].visits[i].avail = "false"
         /\ dispatches[1].visits[i].send = "none"
         /\ results[dispatches[1].visits[i].name] = FALSE
         /\ \E j \in (i + 1)..Len(dispatches[1].visits) :
               Delivered(dispatches[1].visits[j])

---------------------------------------------------------------------------
(* C3 *)

\* C3: the key set of the result a dispatch returns is exactly the set of
\* channel names of the effective order, and every key is the name of an
\* owned channel; the operation returns that very result.
C3_KeysAreOrderNames ==
    /\ \A k \in Runs :
         dispatches[k].status = "returned"
         => /\ DOMAIN dispatches[k].results = NamesOf(dispatches[k].order)
            /\ DOMAIN dispatches[k].results \subseteq NamesOf(notifiers)
            /\ Cardinality(DOMAIN dispatches[k].results) <= Len(notifiers)
    /\ (call.op = "send" /\ outcome.status = "returned")
       => results = dispatches[1].results

\* A returned dispatch over three channels, two of which share a name: two
\* keys for three channels.
C3_Witness ==
    /\ call.op = "send" /\ outcome.status = "returned"
    /\ Len(dispatches[1].order) = 3
    /\ Cardinality(DOMAIN results) = 2
    /\ \E i \in 1..3 : dispatches[1].visits[i].avail = "false"

---------------------------------------------------------------------------
(* C4 *)

\* C4 as stated: no error originating inside a channel escapes
\* send_notification; whichever channel operation fails, the dispatch returns
\* a result map in which every channel of the Manager has an entry.
C4_NoChannelErrorEscapes ==
    call.op = "send"
    => /\ outcome.status = "returned"
       /\ Cardinality(DOMAIN results) >= 1 \/ notifiers = <<>>

---------------------------------------------------------------------------
(* C5 *)

\* C5: for every preference list (unknown and repeated names included) the
\* effective order _get_active_notifiers computes is a permutation of the
\* owned channels, each exactly once; it raises for no unknown name: it
\* raises only where an owned channel's own get_channel_name() raises.
C5_OrderIsPermutation ==
    \A k \in Runs :
        /\ dispatches[k].ordered
           => /\ Len(dispatches[k].order) = Len(notifiers)
              /\ Range(dispatches[k].order) = Range(notifiers)
              /\ Cardinality(Range(dispatches[k].order)) = Len(dispatches[k].order)
        /\ ~dispatches[k].ordered
           => /\ HasBroken(notifiers)
              /\ dispatches[k].prefs # <<>>

\* An order computed for three channels from a preference list that names
\* an unknown channel first and an owned one second, and moves a channel.
C5_Witness ==
    /\ call.op = "send"
    /\ dispatches[1].ordered
    /\ Len(call.prefs) = 2 /\ call.prefs[1] = "ghost"
    /\ call.prefs[2] \in NamesOf(notifiers)
    /\ Len(dispatches[1].order) = 3
    /\ dispatches[1].order # notifiers

---------------------------------------------------------------------------
(* C6 *)

\* Place of a name in a preference list: the index of its first occurrence,
\* or one past the end when the list does not name it.
PrefRank(prefs, n) ==
    IF \E k \in 1..Len(prefs) : prefs[k] = n
    THEN CHOOSE k \in 1..Len(prefs) :
            /\ prefs[k] = n
            /\ \A m \in 1..(k - 1) : prefs[m] # n
    ELSE Len(prefs) + 1

\* Registration index of an owned channel.
IndexIn(ns, c) == CHOOSE i \in 1..Len(ns) : ns[i] = c

\* C6: a dispatch visits the channels one after another in the effective
\* order; in that order channels named by the preference list come in the
\* order the list names them and before every unlisted channel, channels
\* that the list does not tell apart keep their registration order (all of
\* them, with no preference list); the key set of a returned result is the
\* set of owned names, whatever the preference list.
C6_VisitsFollowPreference ==
    \A k \in Runs :
        /\ Len(dispatches[k].visits) <= Len(dispatches[k].order)
        /\ \A j \in 1..Len(dispatches[k].visits) :
              dispatches[k].visits[j].ch = dispatches[k].order[j]
        /\ dispatches[k].ordered
           => \A p, q \in 1..Len(dispatches[k].order) :
                p < q
                => \/ PrefRank(dispatches[k].prefs, ChannelName(dispatches[k].order[p]))
                        < PrefRank(dispatches[k].prefs, ChannelName(dispatches[k].order[q]))
                   \/ /\ PrefRank(dispatches[k].prefs, ChannelName(dispatches[k].order[p]))
                           = PrefRank(dispatches[k].prefs, ChannelName(dispatches[k].order[q]))
                      /\ IndexIn(notifiers, dispatches[k].order[p])
                           < IndexIn(notifiers, dispatches[k].order[q])
        /\ dispatches[k].status = "returned"
           => DOMAIN dispatches[k].results = NamesOf(notifiers)

\* A returned dispatch over three channels with the preference list
\* [whatsapp, test]: the whatsapp channel, registered last, is visited first.
C6_Witness ==
    /\ call.op = "send" /\ outcome.status = "returned"
    /\ call.prefs = <<"whatsapp", "test">>
    /\ Len(notifiers) = 3 /\ notifiers[3] = "whatsapp"
    /\ Len(dispatches[1].visits) = 3
    /\ dispatches[1].visits[1].ch = "whatsapp"
    /\ dispatches[1].visits[2].name = "test"
    /\ dispatches[1].visits[3].name = "flaky"

---------------------------------------------------------------------------
(* C7 *)

\* C7 as stated, for the Manager constructed from an empty channel list: it
\* owns zero channels, and a send_notification on it (any recipient, any
\* preference list) invokes no channel and returns an empty result mapping.
C7_EmptyListGivesEmptyManager ==
    (call.op = "init" /\ outcome.status = "returned"
        /\ call.given /\ call.list = <<>>)
    => /\ notifiers = <<>>
       /\ \A u \in Users, prefs \in SeqsUpTo(PrefNames, MaxPrefs) :
             /\ send_notification(notifiers, u, prefs).status = "returned"
             /\ send_notification(notifiers, u, prefs).visits = <<>>
             /\ send_notification(notifiers, u, prefs).results = EmptyMap

---------------------------------------------------------------------------
(* C8 *)

\* C8 as stated: send_bulk_notification(users, ...) returns a mapping with
\* one entry per recipient username, each entry equal to the result map of
\* a single send_notification for that recipient; no failure of a channel
\* aborts the bulk call; on a Manager holding only the log channel every
\* entry is {log: true}.
C8_BulkEntryPerRecipient ==
    call.op = "bulk"
    => /\ outcome.status = "returned"
       /\ DOMAIN bulkResults = Range(call.users)
       /\ \A u \in DOMAIN bulkResults :
             /\ send_notification(notifiers, u, <<>>).status = "returned"
             /\ bulkResults[u] = send_notification(notifiers, u, <<>>).results
       /\ notifiers = <<FallbackLog>>
          => \A u \in DOMAIN bulkResults : bulkResults[u] = [n \in {"log"} |-> TRUE]

---------------------------------------------------------------------------
(* C9 *)

\* ns is an initial segment of ms.
IsPrefix(ns, ms) ==
    /\ Len(ns) <= Len(ms)
    /\ \A i \in 1..Len(ns) : ns[i] = ms[i]

\* C9: add_notifier(channel) with a channel that implements the interface
\* appends it at the end of the list when it is not already present and
\* leaves the list unchanged when it is; the channels already owned keep
\* their places; a second add_notifier of the same channel changes nothing.
\* An object that does not implement the interface leaves the list
\* unchanged (TypeError).
C9_AddAppendsOnce ==
    call.op = "add"
    => /\ IF ~IsNotificationInterface(call.channel)
          THEN notifiers = before /\ outcome = Raised("TypeError")
          ELSE IF call.channel \in Range(before)
               THEN notifiers = before /\ outcome = Returned
               ELSE notifiers = Append(before, call.channel)
       /\ IsPrefix(before, notifiers)
       /\ IsNotificationInterface(call.channel)
          => /\ add_notifier(notifiers, call.channel) = notifiers
             /\ Cardinality({i \in 1..Len(notifiers) :
                                notifiers[i] = call.channel}) = 1

\* add_notifier was called with a channel the Manager already owned, in the
\* middle of a list of three.
C9_Witness ==
    /\ call.op = "add" /\ outcome.status = "returned"
    /\ Len(before) = 3
    /\ before[2] = call.channel
    /\ notifiers = before

---------------------------------------------------------------------------
(* C10 *)

\* C10: a remove_notifier(name) that returns has removed every owned
\* channel whose name equals name and kept all others in their original
\* relative order; when no owned channel has that name the list is
\* unchanged; afterwards no send_notification result and no
\* get_available_channels result contains name.  remove_notifier raises
\* only where an owned channel's get_channel_name() raises, and then the
\* list is unchanged.
C10_RemoveFiltersByName ==
    call.op = "remove"
    => /\ outcome.status = "returned"
          => /\ notifiers = SelectSeq(before,
                                LAMBDA c : ChannelName(c) # call.name)
             /\ call.name \notin NamesOf(notifiers)
             /\ call.name \notin NamesOf(before) => notifiers = before
             /\ \A u \in Users, prefs \in SeqsUpTo(PrefNames, MaxPrefs) :
                   /\ send_notification(notifiers, u, prefs).status = "returned"
                   /\ call.name \notin
                         DOMAIN send_notification(notifiers, u, prefs).results
             /\ call.name \notin Range(get_available_channels(notifiers).names)
       /\ outcome.status # "returned"
          => /\ outcome = Raised("get_channel_name")
             /\ HasBroken(before)
             /\ notifiers = before

\* remove_notifier("test") returned on a list of three that held two
\* channels named test around a channel of another name.
C10_Witness ==
    /\ call.op = "remove" /\ outcome.status = "returned"
    /\ call.name = "test"
    /\ Len(before) = 3
    /\ ChannelName(before[1]) = "test" /\ ChannelName(before[3]) = "test"
    /\ notifiers = <<before[2]>>

---------------------------------------------------------------------------
(* C11 *)

\* C11: the Manager create_default builds owns, in this order: the in-app
\* channel first if and only if a request was supplied; the email channel
\* next if and only if EMAIL_HOST is configured and DEBUG is off; the
\* whatsapp channel; the log channel, always last; and nothing else.
C11_DefaultChannelOrder ==
    origin.by = "create_default"
    => /\ built
       /\ Len(notifiers)
            = 2 + (IF origin.request THEN 1 ELSE 0)
                + (IF env.emailHost = "host" /\ ~env.debug THEN 1 ELSE 0)
       /\ ("in_app" \in NamesOf(notifiers)) <=> origin.request
       /\ origin.request
          => notifiers[1] = "in_app" /\ IsAvailable(notifiers[1]) = "true"
       /\ ("email" \in NamesOf(notifiers))
            <=> (env.emailHost = "host" /\ ~env.debug)
       /\ "email" \in NamesOf(notifiers)
          => ChannelName(notifiers[IF origin.request THEN 2 ELSE 1]) = "email"
       /\ ChannelName(notifiers[Len(notifiers) - 1]) = "whatsapp"
       /\ ChannelName(notifiers[Len(notifiers)]) = "log"

\* create_default(request) in production with mail configured: all four
\* channels.
C11_Witness ==
    /\ call.op = "create_default" /\ origin.by = "create_default"
    /\ origin.request /\ env.emailHost = "host" /\ ~env.debug
    /\ notifiers = <<"in_app", "email", "whatsapp", "log">>

---------------------------------------------------------------------------
(* C12 *)

\* C12: on a Manager built by create_default with no request and DEBUG on,
\* get_available_channels returns, and its list holds neither email nor
\* in_app and holds both whatsapp and log; the list of a Manager built by
\* create_default is never empty.
C12_DevelopmentDefaultChannels ==
    origin.by = "create_default"
    => /\ get_available_channels(notifiers).status = "returned"
       /\ get_available_channels(notifiers).names # <<>>
       /\ call.op = "available"
          => /\ outcome = Returned
             /\ available = get_available_channels(notifiers).names
       /\ (~origin.request /\ env.debug)
          => /\ "email" \notin Range(get_available_channels(notifiers).names)
             /\ "in_app" \notin Range(get_available_channels(notifiers).names)
             /\ "whatsapp" \in Range(get_available_channels(notifiers).names)
             /\ "log" \in Range(get_available_channels(notifiers).names)

\* get_available_channels returned [whatsapp, log] on the Manager that
\* create_default() built with DEBUG on and EMAIL_HOST configured.
C12_Witness ==
    /\ call.op = "available" /\ outcome = Returned
    /\ origin.by = "create_default" /\ ~origin.request
    /\ env.debug /\ env.emailHost = "host"
    /\ available = <<"whatsapp", "log">>

---------------------------------------------------------------------------
(* C13 *)

\* C13: create_for_channel(name) returns, for each of email, whatsapp, log
\* and in_app, a Manager that owns exactly one channel, whose channel name
\* is name; for any other name it raises ValueError and no Manager is
\* constructed.  (With a request keyword the in_app channel is bound to it;
\* the other three classes take no request and raise TypeError, again with
\* no Manager constructed.)
C13_SingleChannelFactory ==
    /\ call.op = "create_for_channel"
       => /\ (call.name \in {"email", "whatsapp", "log", "in_app"}
                /\ (~call.given \/ call.name = "in_app"))
             => /\ outcome = Returned
                /\ built
                /\ Len(notifiers) = 1
                /\ ChannelName(notifiers[1]) = call.name
                /\ origin.by = "create_for_channel"
          /\ call.name \notin {"email", "whatsapp", "log", "in_app"}
             => /\ outcome = Raised("ValueError")
                /\ ~built /\ notifiers = <<>> /\ origin = NoOrigin
          /\ (call.name \in {"email", "whatsapp", "log"} /\ call.given)
             => /\ outcome = Raised("TypeError")
                /\ ~built /\ notifiers = <<>> /\ origin = NoOrigin
    /\ origin.by = "create_for_channel"
       => /\ Len(notifiers) = 1
          /\ ChannelName(notifiers[1]) = origin.channel

\* create_for_channel('in_app') returned a Manager with one in_app channel.
C13_Witness ==
    /\ call.op = "create_for_channel" /\ outcome = Returned
    /\ call.name = "in_app" /\ ~call.given
    /\ Len(notifiers) = 1
    /\ ChannelName(notifiers[1]) = "in_app"

---------------------------------------------------------------------------
(* C14 *)

\* C14: an object that is not a NotificationInterface is rejected when it is
\* registered: a constructor call whose list holds one raises TypeError and
\* leaves no Manager, add_notifier of one raises TypeError and leaves the
\* list as it was; so every channel of a Manager is conforming; the
\* dispatching and reading operations validate nothing: they never raise
\* TypeError and leave the list alone.
C14_NonConformingRejectedAtRegistration ==
    /\ (call.op = "init"
          /\ \E i \in 1..Len(call.list) : ~IsNotificationInterface(call.list[i]))
       => /\ outcome = Raised("TypeError")
          /\ ~built
    /\ (call.op = "add" /\ ~IsNotificationInterface(call.channel))
       => /\ outcome = Raised("TypeError")
          /\ notifiers = before
    /\ \A i \in 1..Len(notifiers) : IsNotificationInterface(notifiers[i])
    /\ ~built => notifiers = <<>>
    /\ call.op \in {"send", "bulk", "available"}
       => /\ built
          /\ outcome.raisedIn # "TypeError"
          /\ notifiers = before

\* The constructor raised TypeError for a list whose third element is not a
\* NotificationInterface; no Manager exists.
C14_Witness ==
    /\ call.op = "init" /\ outcome = Raised("TypeError")
    /\ Len(call.list) = 3
    /\ IsNotificationInterface(call.list[1])
    /\ IsNotificationInterface(call.list[2])
    /\ call.list[3] = NotAChannel
    /\ ~built /\ notifiers = <<>>

---------------------------------------------------------------------------
(* C15 *)

---------------------------------------------------------------------------
(* C16 *)

\* C16: the whatsapp channel is available in every deployment, and its
\* send_notification returns false exactly when the recipient has no seller
\* profile or an empty whatsapp number, and true otherwise, the link having
\* been built for the recipient's number; in a dispatch it is therefore
\* always attempted.
C16_WhatsAppDeliversIffNumber ==
    /\ (call.op = "channel" /\ call.channel = "whatsapp")
       => /\ sent.avail = "true"
          /\ sent.ret \in {"true", "false"}
          /\ sent.ret = "false"
               <=> (~HasSellerProfile(call.user) \/ WhatsAppOf(call.user) = "")
          /\ sent.ret = "true"
               <=> (sent.effect # "" /\ sent.effect = WhatsAppOf(call.user))
    /\ \A k \in Runs : \A i \in 1..Len(dispatches[k].visits) :
          dispatches[k].visits[i].ch = "whatsapp"
          => /\ dispatches[k].visits[i].avail = "true"
             /\ dispatches[k].visits[i].send \in {"true", "false"}

\* The whatsapp channel returned false for cam, whose seller profile has an
\* empty number.
C16_Witness ==
    /\ call.op = "channel" /\ call.channel = "whatsapp"
    /\ HasSellerProfile(call.user) /\ WhatsAppOf(call.user) = ""
    /\ sent.avail = "true"
    /\ sent.ret = "false"

---------------------------------------------------------------------------
(* C17 *)

\* C17: on a Manager built by create_default every dispatch, for every
\* recipient and preference list, returns a result in which log is present
\* and true, whatever the other channels did; the log channel was visited,
\* was available and delivered.
C17_DefaultDispatchLogsAlways ==
    origin.by = "create_default"
    => /\ \A k \in Runs :
             /\ dispatches[k].status = "returned"
             /\ "log" \in DOMAIN dispatches[k].results
             /\ dispatches[k].results["log"] = TRUE
             /\ \E i \in 1..Len(dispatches[k].visits) :
                   /\ dispatches[k].visits[i].name = "log"
                   /\ dispatches[k].visits[i].avail = "true"
                   /\ Delivered(dispatches[k].visits[i])
       /\ call.op = "send"
          => outcome = Returned /\ results = dispatches[1].results
       /\ \A u \in Recipients, prefs \in FactoryPrefs :
             /\ send_notification(notifiers, u, prefs).status = "returned"
             /\ "log" \in DOMAIN send_notification(notifiers, u, prefs).results
             /\ send_notification(notifiers, u, prefs).results["log"] = TRUE

\* A dispatch through the full default configuration in which email and
\* whatsapp both failed and log is true.
C17_Witness ==
    /\ call.op = "send" /\ outcome = Returned
    /\ origin.by = "create_default"
    /\ DOMAIN results = {"in_app", "email", "whatsapp", "log"}
    /\ results["email"] = FALSE
    /\ results["whatsapp"] = FALSE
    /\ results["log"] = TRUE

---------------------------------------------------------------------------
(* C18 *)

\* C18: the in-app channel is available if and only if it was given a
\* request; with a request its send_notification returns true for every
\* notification_type of the context (comment, favorite, another one, none):
\* the type selects the level of the message only (success for comment,
\* info otherwise); without a request it returns false and adds no message.
C18_InAppDeliveryIgnoresType ==
    (call.op = "channel" /\ call.channel \in {"in_app", "in_app_unbound"})
    => /\ sent.avail = "true" <=> call.channel = "in_app"
       /\ sent.avail \in {"true", "false"}
       /\ call.channel = "in_app"
          => /\ sent.ret = "true"
             /\ sent.effect \in {"success", "info"}
             /\ sent.effect = "success" <=> Tag(sent.context) = "comment"
       /\ call.channel = "in_app_unbound"
          => sent.ret = "false" /\ sent.effect = "none"

\* The in-app channel with a request returned true for the notification
\* type interest, with an info message.
C18_Witness ==
    /\ call.op = "channel" /\ call.channel = "in_app"
    /\ Tag(sent.context) = "interest"
    /\ sent.avail = "true"
    /\ sent.ret = "true" /\ sent.effect = "info"

---------------------------------------------------------------------------
(* C19 *)

\* The seller is the recipient of the one dispatch, the message carries the
\* commenter's display name, the context the type comment and the product's
\* name, and no preference list was passed.
CommentHandedOver ==
    /\ Len(dispatches) = 1
    /\ dispatches[1].user = sent.input.seller
    /\ call.user = sent.input.seller
    /\ dispatches[1].prefs = <<>>
    /\ dispatches[1].ordered /\ dispatches[1].order = sent.manager
    /\ \E i \in 1..Len(sent.message) :
          sent.message[i] = DisplayName(sent.input.actor)
    /\ sent.context["notification_type"] = "comment"
    /\ sent.context["product_name"] = sent.input.product
    /\ sent.manager = (IF service = "injected" THEN notifiers
                       ELSE create_default(call.given))

\* C19 as stated: the result notify_new_comment returns has one entry per
\* channel of the resolved Manager.
C19_OneEntryPerChannel ==
    (call.op = "notify_new_comment" /\ outcome.status = "returned")
    => /\ CommentHandedOver
       /\ Cardinality(DOMAIN results) = Len(sent.manager)

\* C19, amended: notify_new_comment dispatches exactly once, to the
\* product's seller, through the resolved Manager (the injected one, else
\* create_default(request)) with no preference override, with a message
\* containing the commenter's display name and a context whose
\* notification_type is comment and whose product_name is the product's
\* name; it returns the result of that dispatch, which has one entry per
\* distinct channel name of that Manager; it raises only where a channel's
\* get_channel_name() raises.
C19_CommentDispatchedOnceToSeller ==
    call.op = "notify_new_comment"
    => /\ CommentHandedOver
       /\ outcome.status = "returned"
          => /\ results = dispatches[1].results
             /\ DOMAIN results = NamesOf(sent.manager)
             /\ Len(dispatches[1].visits) = Len(sent.manager)
       /\ outcome.status # "returned"
          => /\ outcome = Raised("get_channel_name")
             /\ HasBroken(sent.manager)

\* notify_new_comment through the injected Manager of
\* test_service_integration, for a comment by bob on a product of ana.
C19_Witness ==
    /\ call.op = "notify_new_comment" /\ outcome = Returned
    /\ service = "injected" /\ sent.manager = <<"t_ok">>
    /\ sent.input.seller = "ana" /\ sent.input.actor = "bob"
    /\ dispatches[1].user = "ana"
    /\ results = [n \in {"test"} |-> TRUE]

---------------------------------------------------------------------------
(* C20 *)

\* The channels of ns that have one of the names, in registration order.
Named(ns, names) == SelectSeq(ns, LAMBDA c : ChannelName(c) \in names)

\* C20: notify_product_interest dispatches once, to the product's seller,
\* with the preference list [in_app, whatsapp]: the channels are processed
\* in the order in_app channels (if owned), whatsapp channels (if owned),
\* every other owned channel in registration order; a preferred name the
\* Manager does not own is skipped and raises nothing (the use case raises
\* only where a channel's get_channel_name() raises).
C20_InterestPrefersInAppThenWhatsApp ==
    call.op = "notify_product_interest"
    => /\ Len(dispatches) = 1
       /\ dispatches[1].user = sent.input.seller
       /\ dispatches[1].prefs = <<"in_app", "whatsapp">>
       /\ dispatches[1].ordered
          => dispatches[1].order
               = Named(sent.manager, {"in_app"})
                 \o Named(sent.manager, {"whatsapp"})
                 \o Named(sent.manager,
                          NamesOf(sent.manager) \ {"in_app", "whatsapp"})
       /\ \A i \in 1..Len(dispatches[1].visits) :
             dispatches[1].visits[i].ch = dispatches[1].order[i]
       /\ outcome.status = "returned"
          => /\ Len(dispatches[1].visits) = Len(sent.manager)
             /\ DOMAIN results = NamesOf(sent.manager)
       /\ outcome.status # "returned"
          => /\ outcome = Raised("get_channel_name")
             /\ HasBroken(sent.manager)

\* notify_product_interest through the injected Manager [log, whatsapp,
\* in_app]: in_app was processed first, whatsapp next, log last.
C20_Witness ==
    /\ call.op = "notify_product_interest" /\ outcome = Returned
    /\ sent.manager = <<"log", "whatsapp", "in_app">>
    /\ Len(dispatches[1].visits) = 3
    /\ dispatches[1].visits[1].ch = "in_app"
    /\ dispatches[1].visits[2].ch = "whatsapp"
    /\ dispatches[1].visits[3].ch = "log"

---------------------------------------------------------------------------
(* C21 *)

\* The four use cases of NotificationService.
UseCases ==
    {"notify_new_comment", "notify_new_favorite", "notify_product_interest",
     "notify_low_stock"}

\* C21 as stated: a use case called without a request completes without
\* raising, and when no Manager was injected the Manager it resolves has no
\* in-app channel and the result it returns has no in_app key.
C21_NoSessionNeverRaises ==
    (call.op \in UseCases /\ ~call.given)
    => /\ outcome = Returned
       /\ service = "default"
          => /\ "in_app" \notin NamesOf(sent.manager)
             /\ "in_app" \notin DOMAIN results

---------------------------------------------------------------------------
(* C22 *)

\* C22: add_comment with a valid form has saved the comment when it calls
\* the service, the comment stays saved, and the view returns the redirect
\* with the success message whether the service delivered, returned a
\* result with every channel false, raised, or was not called;
\* toggle_favorite, when it creates the favorite, returns 'added' with the
\* favorite stored, whatever the service did.  No view call ends with an
\* exception of the notification system.
C22_PrimaryTransactionSurvives ==
    /\ (call.op = "add_comment" /\ app.valid)
       => /\ app.comments
                = Append(app.commentsBefore, CommentRow(call.user, app.product))
          /\ app.service # "not_called" => app.atDispatch = "saved"
          /\ app.response = "redirect_success_message"
          /\ outcome = Returned
    /\ (call.op = "toggle_favorite" /\ app.created)
       => /\ FavoriteRow(call.user, app.product) \in app.favorites
          /\ app.favorites
                = app.favoritesBefore \cup {FavoriteRow(call.user, app.product)}
          /\ app.service # "not_called" => app.atDispatch = "saved"
          /\ app.response = "added"
          /\ outcome = Returned

\* add_comment by a user who is not the seller, the service raised: the
\* comment is saved and the success response returned.
C22_Witness ==
    /\ call.op = "add_comment" /\ app.valid
    /\ app.service = "raised"
    /\ Len(app.comments) = Len(app.commentsBefore) + 1
    /\ app.response = "redirect_success_message"

---------------------------------------------------------------------------
(* C23 *)

\* The places of ns that hold a channel named name that is not in ordered.
Unplaced(ns, name, ordered) ==
    {j \in 1..Len(ns) :
        ChannelName(ns[j]) = name /\ ns[j] \notin Range(ordered)}

\* The first channel of ns named name that is not in ordered, appended to
\* ordered (ordered itself when there is none).
FirstUnplaced(ns, name, ordered) ==
    IF Unplaced(ns, name, ordered) = {} THEN ordered
    ELSE Append(ordered,
                ns[CHOOSE j \in Unplaced(ns, name, ordered) :
                      \A k \in Unplaced(ns, name, ordered) : j <= k])

\* For each listed name in order, only the first channel of that name not
\* yet included.
RECURSIVE FirstMatchLoop(_, _, _, _)
FirstMatchLoop(ns, prefs, k, ordered) ==
    IF k > Len(prefs) THEN ordered
    ELSE FirstMatchLoop(ns, prefs, k + 1, FirstUnplaced(ns, prefs[k], ordered))

\* C23 as stated: with a preference list, the effective order of a dispatch
\* holds, for each listed name in order, only the first owned channel of
\* that name not yet included, and then all remaining channels, further
\* channels of a listed name among them, in registration order.
C23_OnlyFirstMatchPlaced ==
    \A k \in Runs :
        (call.op = "send" /\ dispatches[k].ordered
            /\ dispatches[k].prefs # <<>>)
        => dispatches[k].order
              = AppendRest(notifiers, 1,
                           FirstMatchLoop(notifiers, dispatches[k].prefs, 1, <<>>))

---------------------------------------------------------------------------
(* C24 *)

\* C24 as stated: whenever WhatsAppNotifier.send_notification returns true,
\* the link it built is in the context it was given, under whatsapp_url,
\* for every context, the empty one included.
C24_LinkWrittenBack ==
    (call.op = "channel" /\ call.channel = "whatsapp" /\ sent.ret = "true")
    => /\ "whatsapp_url" \in DOMAIN sent.after
       /\ sent.after["whatsapp_url"] = sent.effect

---------------------------------------------------------------------------
(* C25 *)

\* C25 as stated: in a send_bulk_notification with a context, every channel
\* invoked for any recipient finds the context as the caller supplied it:
\* nothing written for an earlier recipient, nothing written by a channel
\* earlier in the order.
C25_ContextAsSupplied ==
    call.op = "bulk_context"
    => \A i \in 1..Len(sent.observed) :
          sent.observed[i].context = sent.context

---------------------------------------------------------------------------
(* C26 *)

\* The last visit of run d to a channel named n.
LastVisitNamed(d, n) ==
    CHOOSE i \in 1..Len(d.visits) :
        /\ d.visits[i].name = n
        /\ \A j \in 1..Len(d.visits) : d.visits[j].name = n => j <= i

\* The visits of run d that invoked send_notification on a channel named n.
InvokedNamed(d, n) ==
    {i \in 1..Len(d.visits) : d.visits[i].name = n /\ d.visits[i].send # "none"}

\* C26 as stated, for a dispatch that returns: each of the channels that
\* report one name has its send_notification invoked, and the result entry
\* of that name is the outcome of the one invoked last in the effective
\* order.
C26_LastInvokedWins ==
    \A k \in Runs : \A i \in 1..Len(dispatches[k].visits) :
        dispatches[k].status = "returned"
        => /\ dispatches[k].visits[i].send # "none"
           /\ \A l \in InvokedNamed(dispatches[k], dispatches[k].visits[i].name) :
                 (\A j \in InvokedNamed(dispatches[k],
                                        dispatches[k].visits[i].name) : j <= l)
                 => dispatches[k].results[dispatches[k].visits[i].name]
                       = Delivered(dispatches[k].visits[l])

\* C26, amended: a dispatch that returns has gone once through each owned
\* channel in the effective order, channels of one name included, and has
\* invoked send_notification on those whose is_available() returned true;
\* the result has one entry per name, and it holds the outcome of the
\* channel of that name that comes last in the effective order: true if that
\* channel was delivered, false if its send returned false or raised or if
\* it was unavailable and so not invoked, whatever earlier channels of the
\* name did.
C26_LastProcessedWins ==
    \A k \in Runs :
        dispatches[k].status = "returned"
        => /\ Len(dispatches[k].visits) = Len(dispatches[k].order)
           /\ \A i \in 1..Len(dispatches[k].visits) :
                 /\ dispatches[k].visits[i].ch = dispatches[k].order[i]
                 /\ dispatches[k].visits[i].send # "none"
                       <=> dispatches[k].visits[i].avail = "true"
           /\ DOMAIN dispatches[k].results = NamesOf(dispatches[k].order)
           /\ \A n \in DOMAIN dispatches[k].results :
                 dispatches[k].results[n]
                    = Delivered(dispatches[k].visits[LastVisitNamed(dispatches[k], n)])

\* A returned dispatch delivered through a first channel and then invoked a
\* second channel of the same name whose send raised: the one entry of that
\* name is false.
C26_Witness ==
    /\ call.op = "send" /\ outcome.status = "returned"
    /\ Len(dispatches[1].visits) >= 2
    /\ Delivered(dispatches[1].visits[1])
    /\ dispatches[1].visits[2].name = dispatches[1].visits[1].name
    /\ dispatches[1].visits[2].send = "raise"
    /\ DOMAIN results = {dispatches[1].visits[1].name}
    /\ results[dispatches[1].visits[1].name] = FALSE

---------------------------------------------------------------------------
(* C27 *)

\* C27 as stated: in one send_notification call every owned channel that is
\* available has its send_notification invoked exactly once, whatever the
\* channels before it in the order did, with or without a preference list.
C27_EveryAvailableInvokedOnce ==
    \A k \in Runs : \A c \in Range(notifiers) :
        (call.op \in {"send", "bulk"} /\ IsAvailable(c) = "true")
        => Cardinality({j \in 1..Len(dispatches[k].visits) :
                           /\ dispatches[k].visits[j].ch = c
                           /\ dispatches[k].visits[j].send # "none"}) = 1

---------------------------------------------------------------------------
(* C28 *)

\* c stands before d in ns.
Precedes(ns, c, d) ==
    \E i, j \in 1..Len(ns) : i < j /\ ns[i] = c /\ ns[j] = d

\* C28: a Manager constructed with pairwise distinct conforming instances
\* holds, after any sequence of its operations, only objects that implement
\* the interface and no instance twice; every operation leaves the channels
\* that survive it in the order they had (add_notifier puts a new channel
\* after them); send_notification, send_bulk_notification and
\* get_available_channels leave the list as it was.
C28_OwnedListInvariant ==
    built
    => /\ \A i \in 1..Len(notifiers) : IsNotificationInterface(notifiers[i])
       /\ \A i, j \in 1..Len(notifiers) : notifiers[i] = notifiers[j] => i = j
       /\ call.op \in {"send", "bulk", "available", "add", "remove"}
          => \A c, d \in Range(before) \cap Range(notifiers) :
                Precedes(before, c, d) <=> Precedes(notifiers, c, d)
       /\ call.op = "add" => IsPrefix(before, notifiers)
       /\ call.op = "remove" => Range(notifiers) \subseteq Range(before)
       /\ call.op \in {"send", "bulk", "available"} => notifiers = before

\* remove_notifier took the middle channel out of a list of three: the two
\* that survive are in their registration order.
C28_Witness ==
    /\ call.op = "remove" /\ outcome.status = "returned"
    /\ Len(before) = 3
    /\ notifiers = <<before[1], before[3]>>
    /\ ChannelName(before[1]) # ChannelName(before[3])

---------------------------------------------------------------------------
(* C29 *)

\* C29: a NotificationService constructed with a Manager dispatches every
\* use case through that Manager, with or without a request: the channel
\* list used is the injected Manager's, which is left as it was, no default
\* Manager is built, and the keys of a returned result are the names of the
\* injected Manager's channels.
C29_InjectedManagerAlwaysUsed ==
    (call.op \in UseCases /\ service = "injected")
    => /\ built
       /\ sent.resolved = "injected"
       /\ sent.manager = notifiers
       /\ notifiers = before
       /\ Len(dispatches) = 1
       /\ dispatches[1].ordered
          => /\ Len(dispatches[1].order) = Len(notifiers)
             /\ Range(dispatches[1].order) = Range(notifiers)
       /\ outcome.status = "returned"
          => DOMAIN results = NamesOf(notifiers)
       /\ "in_app" \in DOMAIN results => "in_app" \in NamesOf(notifiers)

\* notify_product_interest with a request, through the injected Manager
\* [whatsapp, log] of register_whatsapp_click: no in_app key.
C29_Witness ==
    /\ call.op = "notify_product_interest" /\ call.given
    /\ service = "injected" /\ notifiers = <<"whatsapp", "log">>
    /\ outcome = Returned
    /\ DOMAIN results = {"whatsapp", "log"}

---------------------------------------------------------------------------
(* C30 *)

\* C30: add_comment calls the notification service at most once, only for
\* a saved comment whose author is not the product's seller, and
\* toggle_favorite at most once, only when the call created the favorite and
\* the user is not the seller; the run is addressed to the seller.  A toggle
\* on an existing favorite deletes it, dispatches nothing and returns
\* 'removed'.  A second toggle by the same user on the same product brings
\* the favorites back to what they were before the first, and the two
\* toggles together dispatch at most once.
C30_NoSelfNotificationNoneOnRemoval ==
    /\ call.op \in {"add_comment", "toggle_favorite"}
       => /\ Len(dispatches) <= 1
          /\ Len(dispatches) = 0 <=> app.service = "not_called"
          /\ Len(dispatches) = 1
             => /\ call.user # app.product.seller
                /\ dispatches[1].user = app.product.seller
    /\ call.op = "add_comment" => (Len(dispatches) = 1 => app.valid)
    /\ call.op = "toggle_favorite"
       => /\ Len(dispatches) = 1 => app.created
          /\ app.created
                <=> FavoriteRow(call.user, app.product) \notin app.favoritesBefore
          /\ ~app.created
             => /\ app.favorites
                      = app.favoritesBefore \ {FavoriteRow(call.user, app.product)}
                /\ dispatches = <<>>
                /\ app.response = "removed"
          /\ \A fault \in ServiceFaults :
                /\ toggle_favorite(app.favorites, call.user, app.product,
                                   fault).favorites = app.favoritesBefore
                /\ Len(dispatches)
                      + Len(toggle_favorite(app.favorites, call.user,
                                            app.product, fault).runs) <= 1

\* A second toggle by bob on cam's product: the favorite his first toggle
\* created is deleted, nothing is dispatched, 'removed' is returned.
C30_Witness ==
    /\ call.op = "toggle_favorite" /\ call.user = "bob"
    /\ app.product.seller = "cam"
    /\ ~app.created
    /\ app.favoritesBefore = {FavoriteRow("bob", app.product)}
    /\ app.favorites = {}
    /\ dispatches = <<>>
    /\ app.response = "removed"

===========================================================================
